---- MODULE Spec2Model ----
(***************************************************************************)
(* A model of mafmds (src/src/main.rs): a single-voice FM synthesizer.     *)
(* The control thread (main) turns encoder events into Parameters values   *)
(* and pushes them on a 16-entry ArrayQueue; the audio data_callback pops  *)
(* at most one per block, applies it to the envelope / oscillators it      *)
(* owns, and renders the block frame by frame.                             *)
(*                                                                         *)
(* Numbers.  f32 values are modelled exactly, in fixed units:              *)
(*   - frequencies in Hz (led is kept in tenths, so led * 10. is a whole   *)
(*     number of Hz);                                                      *)
(*   - durations carried by Attack / Release in 1/640 s (led / 64. with    *)
(*     led in tenths), so 0.1 s = 64 and 0.9 s = 576, and s2f(x) = 75 x;   *)
(*   - oscillator phase in ticks of 2 PI / 48000, so that the phase        *)
(*     increment 2 PI / (sample_rate / f) is f ticks;                      *)
(*   - envelope values and samples in fixed point, [num, den] with         *)
(*     den = FxOne (samples: SinScale); the f32 NaN that 0.0 / 0.0         *)
(*     produces is the value with den = 0.                                 *)
(* 0.0 and 1.0 are exact; f32 rounding in between is replaced by the       *)
(* rounding of the fixed point.                                            *)
(***************************************************************************)
EXTENDS Integers, Sequences, FiniteSets, TLC

\* ---------------------------------------------------------------- constants

\* const SAMPLE_FREQUENCY: u32 = 48_000
SAMPLE_FREQUENCY == 48000

\* ArrayQueue::new(16)
QueueCapacity == 16

\* Param::new: counter: 1000, smoothing: 1000
Smoothing == 1000

\* the clamp of led[n] to [0., 64.], in tenths
LedMax == 640

\* one second in the unit of the Attack / Release payload (1/640 s)
DurUnit == 640

\* samples per 1/640 s at 48 kHz: s2f multiplies by sample_rate
SamplesPerDurUnit == SAMPLE_FREQUENCY \div DurUnit

\* half a turn of phase, in ticks of 2 PI / 48000
HalfTurn == SAMPLE_FREQUENCY \div 2

\* resolution of a rendered sine sample: sin is in [-SinScale, SinScale] / SinScale
SinScale == 100

\* osc.set_frequency_no_smooth((m + 1.0) * 100.)
ModDepth == 100

\* 1.0 in the fixed point of envelope values
FxOne == 10000

\* ticks of phase per step of the sine table
SinGrid == 100

\* ------------------------------------------------------------------- bounds

\* encoder events the control thread handles in one run
MaxEvents == 3

\* frames the sample clock may reach in the interleaved specification
MaxFrames == 5

\* largest block (frames per data_callback invocation)
MaxBlock == 2

\* encoder indices an event may carry: 0..3 are the four encoders, 4 is malformed
MaxEncoder == 4

\* bounds of the envelope configurations of SpecEnv (sample counts)
MaxSeg == 2

\* sustain is drawn from 0/SustainDen .. SustainDen/SustainDen
SustainDen == 2

\* largest trigger time of SpecEnv
MaxStart == 2

\* encoder events of the burst specification: with the four startup pushes,
\* one more than the queue holds
BurstEvents == 13

\* frames the sample clock may reach in the burst specification
BurstFrames == 16

\* encoder events, frames and frames per block of the specification in
\* which the callback is invoked forever
LiveEvents == 1
LiveFrames == 2
LiveBlock == 1

\* frames per block in the specification that renders past one second
SecondBlock == 480

\* Oscillator::render calls in one run of the oscillator specification
MaxRenders == 3

\* ------------------------------------------------------------ f32 fractions

Frac(n, d) == [num |-> n, den |-> d]

\* 0.0 / 0.0
NaN == Frac(0, 0)

IsNaN(x) == x.den = 0

Zero == Frac(0, FxOne)

One == Frac(FxOne, FxOne)

\* x == y on f32: false whenever either side is NaN
FEq(x, y) == ~IsNaN(x) /\ ~IsNaN(y) /\ x.num * y.den = y.num * x.den

\* x <= y on f32 (denominators are positive unless NaN)
FLe(x, y) == ~IsNaN(x) /\ ~IsNaN(y) /\ x.num * y.den <= y.num * x.den

\* g * s
FMul(x, y) == IF IsNaN(x) \/ IsNaN(y) THEN NaN ELSE Frac(x.num * y.num, x.den * y.den)

\* ------------------------------------------------------------------- ADSR

\* ADSR::new(sample_rate)
ADSR_new ==
    [start_time |-> 0, attack |-> 0, decay |-> 0, hold |-> 0,
     release |-> SAMPLE_FREQUENCY \div 100, sustain |-> One]

\* a duration that counts the attack twice
duration_attack_twice(e) == e.attack + e.attack + e.decay + e.hold + e.release

\* ADSR::duration
duration(e) == e.attack + e.decay + e.hold + e.release

\* the shaping closure f of ADSR::render applied to a / b (as f32 / as f32)
shape(a, b) ==
    IF b = 0 THEN NaN
    ELSE LET x == (a * FxOne) \div b IN Frac((x * x) \div FxOne, FxOne)

\* 1.0 - (1.0 - sustain) * x
DecayValue(sus, x) ==
    IF IsNaN(x) \/ IsNaN(sus) THEN NaN
    ELSE Frac(FxOne - ((FxOne - sus.num) * x.num) \div FxOne, FxOne)

\* sustain - sustain * x
ReleaseValue(sus, x) ==
    IF IsNaN(x) \/ IsNaN(sus) THEN NaN
    ELSE Frac(sus.num - (sus.num * x.num) \div FxOne, FxOne)

\* a test that lets sample indices before start_time through
Outside_upper_only(e, t) == t > e.start_time + duration(e)

\* t > self.start_time + self.duration() || t < self.start_time
Outside(e, t) == t > e.start_time + duration(e) \/ t < e.start_time

\* the usize subtractions render(t) performs, in order, as
\* <<minuend, subtrahend>> pairs
Subtractions(e, t) ==
    IF Outside(e, t) THEN <<>>
    ELSE LET t1 == t - e.start_time IN
         IF t1 < e.attack THEN << <<t, e.start_time>> >>
         ELSE LET t2 == t1 - e.attack IN
              IF t2 < e.decay THEN << <<t, e.start_time>>, <<t1, e.attack>> >>
              ELSE LET t3 == t2 - e.decay IN
                   IF t3 < e.hold
                   THEN << <<t, e.start_time>>, <<t1, e.attack>>, <<t2, e.decay>> >>
                   ELSE << <<t, e.start_time>>, <<t1, e.attack>>, <<t2, e.decay>>,
                           <<t3, e.hold>> >>

\* a render whose attack segment includes its end sample (t <= attack)
ADSR_render_attack_le(e, t) ==
    IF t > e.start_time + duration(e) \/ t < e.start_time THEN Zero
    ELSE LET t1 == t - e.start_time IN
         IF t1 <= e.attack THEN shape(t1, e.attack)
         ELSE LET t2 == t1 - e.attack IN
              IF t2 < e.decay THEN DecayValue(e.sustain, shape(t2, e.decay))
              ELSE LET t3 == t2 - e.decay IN
                   IF t3 < e.hold THEN e.sustain
                   ELSE LET t4 == t3 - e.hold IN
                        ReleaseValue(e.sustain, shape(t4, e.release))

\* ADSR::render(t)
ADSR_render(e, t) ==
    IF Outside(e, t) THEN Zero
    ELSE LET t1 == t - e.start_time IN
         IF t1 < e.attack THEN shape(t1, e.attack)
         ELSE LET t2 == t1 - e.attack IN
              IF t2 < e.decay THEN DecayValue(e.sustain, shape(t2, e.decay))
              ELSE LET t3 == t2 - e.decay IN
                   IF t3 < e.hold THEN e.sustain
                   ELSE LET t4 == t3 - e.hold IN
                        ReleaseValue(e.sustain, shape(t4, e.release))

\* ADSR::s2f: (s * sample_rate) as usize, a saturating cast
s2f(s) == IF s < 0 THEN 0 ELSE s * SamplesPerDurUnit

\* ADSR::set_attack
set_attack(e, a) == [e EXCEPT !.attack = s2f(a)]

\* a set_release that stretches the hold segment as well
set_release_and_hold(e, r) == [e EXCEPT !.release = s2f(r), !.hold = s2f(r)]

\* ADSR::set_release
set_release(e, r) == [e EXCEPT !.release = s2f(r)]

\* ADSR::trigger
trigger(e, time) == [e EXCEPT !.start_time = time]

\* ------------------------------------------------------------------ Param

\* Param::new(sample_rate, v)
Param_new(v) == [v0 |-> v, v1 |-> v, counter |-> Smoothing]

\* Param::value: the smoothing is commented out, it returns v0
value(p) == p.v0

\* Param::set_value: only v0 is assigned
set_value(p, v) == [p EXCEPT !.v0 = v]

\* Param::set_value_no_smooth
set_value_no_smooth(p, v) == [p EXCEPT !.counter = Smoothing, !.v0 = v, !.v1 = v]

\* ------------------------------------------------------------- Oscillator

\* Oscillator::new(sample_rate)
Oscillator_new == [phase |-> 0, frequency |-> Param_new(440), detune |-> Param_new(0)]

RECURSIVE Pow2(_)
Pow2(n) == IF n <= 0 THEN 1 ELSE 2 * Pow2(n - 1)

\* (detune / 1200.).exp2() in Hz; exact at whole octaves up, and detune is
\* never set by the program (it stays 0, exp2 = 1)
Exp2Cents(d) == IF d >= 0 THEN Pow2(d \div 1200) ELSE 0

\* sin of a phase in ticks, times SinScale (Bhaskara's rational approximation
\* on a grid of SinGrid ticks; exact at 0, the quarter turns and the half turns)
SinHalf(x) ==
    LET y == x \div SinGrid
        h == HalfTurn \div SinGrid
    IN (16 * y * (h - y) * SinScale) \div (5 * h * h - 4 * y * (h - y))

SinFix(p) ==
    LET r == p % SAMPLE_FREQUENCY IN
    IF r <= HalfTurn THEN SinHalf(r) ELSE 0 - SinHalf(r - HalfTurn)

\* the effective frequency of Oscillator::render
final_frequency(o) == value(o.frequency) + Exp2Cents(value(o.detune))

\* self.phase += phase_increment, then one conditional subtraction of 2 PI;
\* the NaN reset cannot fire on finite frequencies
NextPhase(o) ==
    LET p == o.phase + final_frequency(o) IN
    IF p > SAMPLE_FREQUENCY THEN p - SAMPLE_FREQUENCY ELSE p

\* Oscillator::render: the sample returned
Osc_rv(o) == Frac(SinFix(o.phase), SinScale)

\* Oscillator::render: the oscillator afterwards
Osc_render(o) == [o EXCEPT !.phase = NextPhase(o)]

\* Oscillator::set_frequency
set_frequency(o, f) == [o EXCEPT !.frequency = set_value(o.frequency, f)]

\* Oscillator::set_frequency_no_smooth
set_frequency_no_smooth(o, f) == [o EXCEPT !.frequency = set_value_no_smooth(o.frequency, f)]

\* Oscillator::set_detune
set_detune(o, d) == [o EXCEPT !.detune = set_value(o.detune, d)]

\* ------------------------------------------------------------- ArrayQueue

\* a push that lets one entry more than the capacity in
push_one_over(queue, m) ==
    IF Len(queue) > QueueCapacity
    THEN [ok |-> FALSE, queue |-> queue]
    ELSE [ok |-> TRUE, queue |-> Append(queue, m)]

\* ArrayQueue::push: Err(PushError(value)) and no change when full
push(queue, m) ==
    IF Len(queue) >= QueueCapacity
    THEN [ok |-> FALSE, queue |-> queue]
    ELSE [ok |-> TRUE, queue |-> Append(queue, m)]

\* a pop that takes the newest element
pop_newest(queue) ==
    IF queue = <<>>
    THEN [ok |-> FALSE, queue |-> queue]
    ELSE [ok |-> TRUE, m |-> queue[Len(queue)], queue |-> SubSeq(queue, 1, Len(queue) - 1)]

\* ArrayQueue::pop: the oldest element, Err(PopError) when empty
pop(queue) ==
    IF queue = <<>>
    THEN [ok |-> FALSE, queue |-> queue]
    ELSE [ok |-> TRUE, m |-> Head(queue), queue |-> Tail(queue)]

\* ------------------------------------------------------------------ state

VARIABLES
    ctl_pc,      \* control thread: where main is
    led,         \* led: [f32; 4], in tenths
    local,       \* freq, mod_freq, attack, release of main
    events,      \* encoder events handled so far (bounded)
    q,           \* the ArrayQueue, oldest first
    clock,       \* audio_clock frames (consumer.raw_frames())
    env,         \* ADSR owned by the callback
    osc,         \* carrier Oscillator
    osc_mod,     \* modulator Oscillator
    cb_pc,       \* data_callback: "idle" between invocations, "frames" in the loop
    cb_left,     \* frames of the block still to render
    g,           \* last env.render value
    s,           \* last osc.render value
    out,         \* last frame written: [l, r]
    pushed,      \* history: number of successful pushes (ids 1..pushed)
    applied,     \* history: ids of the updates applied, in order
    track,       \* history: one update followed from its push to its pop
    cb_update,   \* history: the update popped by the current invocation, or NoUpdate
    freq_used,   \* history: frequency.value() the carrier last rendered with
    op           \* last ADSR operation of the envelope specification

vars == <<ctl_pc, led, local, events, q, clock, env, osc, osc_mod, cb_pc, cb_left,
          g, s, out, pushed, applied, track, cb_update, freq_used, op>>

ctl_vars == <<ctl_pc, led, local, events, pushed>>

audio_vars == <<clock, env, osc, osc_mod, cb_pc, cb_left, g, s, out, applied,
                cb_update, freq_used>>

NoUpdate == [kind |-> "none", v |-> 0, id |-> 0]

\* enum Parameters, with the history field id (push order)
Parameters(kind, v) == [kind |-> kind, v |-> v, id |-> pushed + 1]

\* the follower of one update: "off" (follows nothing), "armed" (may pick a
\* pushed update), "on" (id is queued; age counts the invocations of
\* data_callback begun since its push), "done" (it was popped by the age-th)
Track(st, id, age) == [st |-> st, id |-> id, age |-> age]

\* freq = 110., mod_freq = 55., attack = 0.1, release = 0.9
StartupLocal == [freq |-> 110, mod_freq |-> 55, attack |-> 64, release |-> 576]

\* the state after construction, at stream.start()
Init ==
    /\ ctl_pc = "push_freq"
    /\ led = [n \in 0..3 |-> 0]
    /\ local = StartupLocal
    /\ events = 0
    /\ q = <<>>
    /\ clock = 0
    /\ env = ADSR_new
    /\ osc = Oscillator_new
    /\ osc_mod = Oscillator_new
    /\ cb_pc = "idle"
    /\ cb_left = 0
    /\ g = Zero
    /\ s = Zero
    /\ out = [l |-> Zero, r |-> Zero]
    /\ pushed = 0
    /\ applied = <<>>
    /\ track = Track("off", 0, 0)
    /\ cb_update = NoUpdate
    /\ freq_used = 0
    /\ op = "none"

\* -------------------------------------------------------- control thread

\* a control thread that sets the envelope itself
ControlSetsEnvelope ==
    /\ env' = set_attack(env, local.attack)
    /\ UNCHANGED <<clock, osc, osc_mod, cb_pc, cb_left, g, s, out, applied,
                   cb_update, freq_used>>

\* the control thread owns none of the synthesis state: the closure of
\* data_callback took env, osc, osc_mod and updater by move
ControlLeavesAudio == UNCHANGED audio_vars

\* q.push(m).unwrap(): a full queue panics main
PushUnwrap(m, next_pc) ==
    LET r == push(q, m) IN
    /\ q' = r.queue
    /\ IF r.ok
       THEN /\ ctl_pc' = next_pc
            /\ pushed' = pushed + 1
            /\ \/ track' = track
               \/ track.st = "armed" /\ track' = Track("on", m.id, 0)
       ELSE /\ ctl_pc' = "panic_push"
            /\ UNCHANGED <<pushed, track>>

\* the four pushes before the control loop
StartupPush ==
    /\ \/ ctl_pc = "push_freq" /\ PushUnwrap(Parameters("CarrierFreq", local.freq), "push_mod")
       \/ ctl_pc = "push_mod" /\ PushUnwrap(Parameters("ModulationFreq", local.mod_freq), "push_attack")
       \/ ctl_pc = "push_attack" /\ PushUnwrap(Parameters("Attack", local.attack), "push_release")
       \/ ctl_pc = "push_release" /\ PushUnwrap(Parameters("Release", local.release), "poll")
    /\ ControlLeavesAudio
    /\ UNCHANGED <<led, local, events, op>>

\* a clamp without the upper limit
Clamp_no_ceiling(x) == IF x < 0 THEN 0 ELSE x

\* led[n] + delta / 10., clamped to [0., 64.]
Clamp(x) == IF x < 0 THEN 0 ELSE IF x > LedMax THEN LedMax ELSE x

\* led[n] * 10., in Hz, of an accumulator held in tenths
LedTimesTen(l) == (l * 10) \div 10

\* led[n] / 64., in 1/DurUnit s, of an accumulator held in tenths
LedOver64(l) == (l * DurUnit) \div (64 * 10)

\* the update an encoder's new led value is turned into
EncoderUpdate(n, l) ==
    CASE n = 0 -> Parameters("CarrierFreq", LedTimesTen(l))
      [] n = 1 -> Parameters("ModulationFreq", LedTimesTen(l))
      [] n = 2 -> Parameters("Attack", LedOver64(l))
      [] n = 3 -> Parameters("Release", LedOver64(l))

\* Some(MonomeEvent::EncoderDelta { n, delta }): led[n] is indexed before
\* the match on n, so an index outside 0..3 panics main
EncoderDelta(n, delta) ==
    /\ ctl_pc = "poll"
    /\ IF n > 3
       THEN /\ ctl_pc' = "panic_index"
            /\ UNCHANGED <<led, local, q, pushed, track>>
       ELSE LET l == Clamp(led[n] + delta) IN
            /\ led' = [led EXCEPT ![n] = l]
            /\ local' = CASE n = 0 -> [local EXCEPT !.freq = LedTimesTen(l)]
                          [] n = 1 -> [local EXCEPT !.mod_freq = LedTimesTen(l)]
                          [] n = 2 -> [local EXCEPT !.attack = LedOver64(l)]
                          [] n = 3 -> [local EXCEPT !.release = LedOver64(l)]
            /\ PushUnwrap(EncoderUpdate(n, l), "poll")
    /\ events' = events + 1
    /\ ControlLeavesAudio
    /\ UNCHANGED op

\* deltas an encoder event carries, in tenths of a led step
Deltas == {-5, 400}

\* monome.poll() of the interleaved specification.  An answer other than an
\* encoder event (break, sleep 10 ms, poll again) changes nothing: a stuttering step
Poll ==
    /\ events < MaxEvents
    /\ \E n \in 0..MaxEncoder, delta \in Deltas : EncoderDelta(n, delta)

\* monome.poll() of the burst specification: one encoder turned up fast
PollBurst ==
    /\ events < BurstEvents
    /\ EncoderDelta(0, 400)

\* --------------------------------------------------------- data_callback

\* a panic of main ends the process and with it the stream
Running == ctl_pc \notin {"panic_push", "panic_index"}

\* a match whose Release arm sets the attack
Dispatch_release_as_attack(m) ==
    CASE m.kind = "CarrierFreq" -> <<env, set_frequency(osc, m.v), osc_mod>>
      [] m.kind = "ModulationFreq" -> <<env, osc, set_frequency(osc_mod, m.v)>>
      [] m.kind = "Release" -> <<set_attack(env, m.v), osc, osc_mod>>
      [] m.kind = "Attack" -> <<set_attack(env, m.v), osc, osc_mod>>

\* the match on the popped Parameters: (env, osc, osc_mod) afterwards
Dispatch(m) ==
    CASE m.kind = "CarrierFreq" -> <<env, set_frequency(osc, m.v), osc_mod>>
      [] m.kind = "ModulationFreq" -> <<env, osc, set_frequency(osc_mod, m.v)>>
      [] m.kind = "Release" -> <<set_release(env, m.v), osc, osc_mod>>
      [] m.kind = "Attack" -> <<set_attack(env, m.v), osc, osc_mod>>

\* a callback that reads the head of the queue and leaves it queued
CallbackPeek(queue) ==
    IF queue = <<>>
    THEN [ok |-> FALSE, queue |-> queue]
    ELSE [ok |-> TRUE, m |-> Head(queue), queue |-> queue]

\* a callback that pops until the queue is empty and keeps the last update
CallbackDrain(queue) ==
    IF queue = <<>>
    THEN [ok |-> FALSE, queue |-> queue]
    ELSE [ok |-> TRUE, m |-> queue[Len(queue)], queue |-> <<>>]

\* match q2.pop(): once per invocation
CallbackPop(queue) == pop(queue)

\* data_callback entered with a block of n frames: the one q2.pop(); an
\* empty block runs no frame and returns at once
CallbackBegin(n, max_frames) ==
    /\ Running
    /\ cb_pc = "idle"
    /\ clock + n <= max_frames
    /\ LET r == CallbackPop(q) IN
       /\ q' = r.queue
       /\ track' = IF track.st # "on" THEN track
                   ELSE IF r.m.id = track.id THEN Track("done", 0, track.age + 1)
                   ELSE Track("on", track.id, track.age + 1)
       /\ IF r.ok
          THEN /\ env' = Dispatch(r.m)[1]
               /\ osc' = Dispatch(r.m)[2]
               /\ osc_mod' = Dispatch(r.m)[3]
               /\ applied' = Append(applied, r.m.id)
               /\ cb_update' = r.m
          ELSE /\ UNCHANGED <<env, osc, osc_mod, applied>>
               /\ cb_update' = NoUpdate
    /\ cb_pc' = IF n = 0 THEN "idle" ELSE "frames"
    /\ cb_left' = n
    /\ UNCHANGED <<ctl_vars, clock, g, s, out, freq_used, op>>

\* a loop that triggers one frame after each multiple of the sample rate
Retrigger_one_late(e, t) == IF t % SAMPLE_FREQUENCY = 1 THEN trigger(e, t) ELSE e

\* if consumer.raw_frames() % 48000 == 0 { env.trigger(t) }
Retrigger(e, t) == IF t % SAMPLE_FREQUENCY = 0 THEN trigger(e, t) ELSE e

\* a frame whose right channel is left silent
StereoFrame_left_only(x) == [l |-> x, r |-> Zero]

\* f.l = g * s; f.r = f.l
StereoFrame(x) == [l |-> x, r |-> x]

\* one iteration of for f in output.iter_mut(); the last one returns
Frame ==
    /\ Running
    /\ cb_pc = "frames"
    /\ LET t == clock
           env1 == Retrigger(env, t)
           m == Osc_rv(osc_mod)
           osc1 == set_frequency_no_smooth(osc, (m.num * ModDepth) \div m.den + ModDepth)
       IN
       /\ env' = env1
       /\ osc_mod' = Osc_render(osc_mod)
       /\ g' = ADSR_render(env1, t)
       /\ s' = Osc_rv(osc1)
       /\ osc' = Osc_render(osc1)
       /\ freq_used' = value(osc1.frequency)
       /\ out' = StereoFrame(FMul(g', s'))
    /\ clock' = clock + 1
    /\ cb_left' = cb_left - 1
    /\ cb_pc' = IF cb_left = 1 THEN "idle" ELSE "frames"
    /\ UNCHANGED <<ctl_vars, q, applied, track, cb_update, op>>

\* the host invokes data_callback with a block
Callback == \E n \in 1..MaxBlock : CallbackBegin(n, MaxFrames)

\* the host invokes data_callback in the burst specification, frame by frame
CallbackBurst == CallbackBegin(1, BurstFrames)

\* ---------------------------------------------------------- specification

\* the program: control thread and audio callback interleaved
Next == StartupPush \/ Poll \/ Callback \/ Frame

Spec == Init /\ [][Next]_vars

\* the program when one encoder is turned faster than the callback drains
NextBurst == StartupPush \/ PollBurst \/ CallbackBurst \/ Frame

\* the same start, with the follower armed
InitBurst ==
    /\ track = Track("armed", 0, 0)
    /\ ctl_pc = "push_freq"
    /\ led = [n \in 0..3 |-> 0]
    /\ local = StartupLocal
    /\ events = 0
    /\ q = <<>>
    /\ clock = 0
    /\ env = ADSR_new
    /\ osc = Oscillator_new
    /\ osc_mod = Oscillator_new
    /\ cb_pc = "idle"
    /\ cb_left = 0
    /\ g = Zero
    /\ s = Zero
    /\ out = [l |-> Zero, r |-> Zero]
    /\ pushed = 0
    /\ applied = <<>>
    /\ cb_update = NoUpdate
    /\ freq_used = 0
    /\ op = "none"

SpecBurst == InitBurst /\ [][NextBurst]_vars

\* ------------------------------------------------- ADSR as a pure function

\* sustain values k / SustainDen
Sustains == {Frac((k * FxOne) \div SustainDen, FxOne) : k \in 0..SustainDen}

\* sample indices that reach past the end of every envelope drawn
MaxT == MaxStart + 4 * MaxSeg + 2

\* an ADSR in any configuration of bounded segment lengths
InitEnv ==
    /\ env \in [start_time : 0..MaxStart, attack : 0..MaxSeg, decay : 0..MaxSeg,
                hold : 0..MaxSeg, release : 0..MaxSeg, sustain : Sustains]
    /\ op = "new"
    /\ clock = 0
    /\ g = Zero
    /\ ctl_pc = "push_freq"
    /\ led = [n \in 0..3 |-> 0]
    /\ local = StartupLocal
    /\ events = 0
    /\ q = <<>>
    /\ osc = Oscillator_new
    /\ osc_mod = Oscillator_new
    /\ cb_pc = "idle"
    /\ cb_left = 0
    /\ s = Zero
    /\ out = [l |-> Zero, r |-> Zero]
    /\ pushed = 0
    /\ applied = <<>>
    /\ track = Track("off", 0, 0)
    /\ cb_update = NoUpdate
    /\ freq_used = 0

\* env.render(t) at any sample index
EnvRender ==
    /\ \E t \in 0..MaxT :
          /\ clock' = t
          /\ g' = ADSR_render(env, t)
    /\ op' = "render"
    /\ UNCHANGED <<ctl_vars, q, env, osc, osc_mod, cb_pc, cb_left, s, out,
                   applied, track, cb_update, freq_used>>

\* env.trigger(time)
EnvTrigger ==
    /\ \E time \in 0..MaxStart : env' = trigger(env, time)
    /\ op' = "trigger"
    /\ UNCHANGED <<ctl_vars, q, clock, g, osc, osc_mod, cb_pc, cb_left, s, out,
                   applied, track, cb_update, freq_used>>

NextEnv == EnvRender \/ EnvTrigger

SpecEnv == InitEnv /\ [][NextEnv]_vars

\* ------------------------------------------ the callback invoked forever

\* the host invokes data_callback with a block that may be empty: the frame
\* bound stops the clock, not the invocations
CallbackLive == \E n \in 0..LiveBlock : CallbackBegin(n, LiveFrames)

\* monome.poll() with a bounded number of encoder events
PollLive ==
    /\ events < LiveEvents
    /\ \E n \in 0..MaxEncoder, delta \in Deltas : EncoderDelta(n, delta)

NextLive == StartupPush \/ PollLive \/ CallbackLive \/ Frame

\* the program under a host that keeps invoking data_callback and lets
\* every invocation run its frame loop to the end
SpecLive == Init /\ [][NextLive]_vars /\ WF_vars(CallbackLive) /\ WF_vars(Frame)

\* ------------------------------------------- the first second of frames

\* the state at the first callback when main pushed its four startup
\* updates before the host invoked data_callback
InitSecond ==
    /\ ctl_pc = "poll"
    /\ led = [n \in 0..3 |-> 0]
    /\ local = StartupLocal
    /\ events = 0
    /\ q = << [kind |-> "CarrierFreq", v |-> StartupLocal.freq, id |-> 1],
              [kind |-> "ModulationFreq", v |-> StartupLocal.mod_freq, id |-> 2],
              [kind |-> "Attack", v |-> StartupLocal.attack, id |-> 3],
              [kind |-> "Release", v |-> StartupLocal.release, id |-> 4] >>
    /\ clock = 0
    /\ env = ADSR_new
    /\ osc = Oscillator_new
    /\ osc_mod = Oscillator_new
    /\ cb_pc = "idle"
    /\ cb_left = 0
    /\ g = Zero
    /\ s = Zero
    /\ out = [l |-> Zero, r |-> Zero]
    /\ pushed = 4
    /\ applied = <<>>
    /\ track = Track("off", 0, 0)
    /\ cb_update = NoUpdate
    /\ freq_used = 0
    /\ op = "none"

\* the host invokes data_callback with blocks of one size, past one second
CallbackSecond == CallbackBegin(SecondBlock, SAMPLE_FREQUENCY + 2 * SecondBlock)

NextSecond == CallbackSecond \/ Frame

\* the audio callback alone, with no encoder event, past the first retrigger
SpecSecond == InitSecond /\ [][NextSecond]_vars

\* -------------------------------------------- Oscillator as a component

\* frequencies set on the oscillator, in Hz: negative, zero, audible, and
\* more than one turn of phase per sample
OscFreqs == {0 - 440, 0 - 1, 0, 440, 2 * SAMPLE_FREQUENCY + 440}

\* detunes set on the oscillator, in cents
OscDetunes == {0, 1200}

\* a new Oscillator
InitOsc ==
    /\ osc = Oscillator_new
    /\ op = "new"
    /\ clock = 0
    /\ s = Zero
    /\ cb_update = NoUpdate
    /\ freq_used = 0
    /\ ctl_pc = "push_freq"
    /\ led = [n \in 0..3 |-> 0]
    /\ local = StartupLocal
    /\ events = 0
    /\ q = <<>>
    /\ env = ADSR_new
    /\ osc_mod = Oscillator_new
    /\ cb_pc = "idle"
    /\ cb_left = 0
    /\ g = Zero
    /\ out = [l |-> Zero, r |-> Zero]
    /\ pushed = 0
    /\ applied = <<>>
    /\ track = Track("off", 0, 0)

\* osc.set_frequency(f), as the dispatch of CarrierFreq(f) calls it
OscSetFrequency ==
    /\ \E f \in OscFreqs :
          /\ osc' = set_frequency(osc, f)
          /\ cb_update' = [kind |-> "CarrierFreq", v |-> f, id |-> 0]
    /\ op' = "set_frequency"
    /\ UNCHANGED <<ctl_vars, q, clock, env, osc_mod, cb_pc, cb_left, g, s, out,
                   applied, track, freq_used>>

\* osc.set_frequency_no_smooth(f)
OscSetFrequencyNoSmooth ==
    /\ \E f \in OscFreqs :
          /\ osc' = set_frequency_no_smooth(osc, f)
          /\ cb_update' = [kind |-> "CarrierFreq", v |-> f, id |-> 0]
    /\ op' = "set_frequency_no_smooth"
    /\ UNCHANGED <<ctl_vars, q, clock, env, osc_mod, cb_pc, cb_left, g, s, out,
                   applied, track, freq_used>>

\* osc.set_detune(d)
OscSetDetune ==
    /\ \E d \in OscDetunes : osc' = set_detune(osc, d)
    /\ op' = "set_detune"
    /\ UNCHANGED <<ctl_vars, q, clock, env, osc_mod, cb_pc, cb_left, g, s, out,
                   applied, track, cb_update, freq_used>>

\* osc.render(t); clock counts the calls
OscRender ==
    /\ clock < MaxRenders
    /\ s' = Osc_rv(osc)
    /\ osc' = Osc_render(osc)
    /\ freq_used' = value(osc.frequency)
    /\ clock' = clock + 1
    /\ op' = "render"
    /\ UNCHANGED <<ctl_vars, q, env, osc_mod, cb_pc, cb_left, g, out,
                   applied, track, cb_update>>

NextOsc == OscSetFrequency \/ OscSetFrequencyNoSmooth \/ OscSetDetune \/ OscRender

SpecOsc == InitOsc /\ [][NextOsc]_vars

\* ================================================================= claims

\* the sample index at which the envelope drawn ends
EnvEnd == env.start_time + env.attack + env.decay + env.hold + env.release

\* a step of the control thread, a step of the audio callback
ControlStep == ctl_pc' # ctl_pc \/ events' # events \/ led' # led \/ local' # local \/ pushed' # pushed

AudioStep == cb_pc' # cb_pc \/ clock' # clock

\* data_callback is entered (its pop happens in this step)
CallbackEntry == cb_pc = "idle" /\ cb_pc' = "frames"

\* C1: updates are applied in the order they were pushed: the ids applied are
\* increasing, every update still queued was pushed after every applied one,
\* and the queue holds them oldest first.
C1_AppliedInPushOrder ==
    /\ \A i, j \in 1..Len(applied) : i < j => applied[i] < applied[j]
    /\ \A i \in 1..Len(applied), j \in 1..Len(q) : applied[i] < q[j].id
    /\ \A i, j \in 1..Len(q) : i < j => q[i].id < q[j].id

\* C1 witness: an encoder update was applied after the four startup updates
\* while a later one is still queued
C1_Witness == Len(applied) >= 5 /\ Len(q) >= 1 /\ events >= 2

\* C2: an invocation of data_callback pops at most once, at its entry and
\* before any frame is rendered; with more than one update pending exactly the
\* oldest leaves the queue and the rest stay; rendering a frame pops nothing.
C2_OnePopPerCallback ==
    [][/\ Len(q') >= Len(q) - 1
       /\ Len(applied') <= Len(applied) + 1
       /\ (Len(q') < Len(q) \/ applied' # applied) => (CallbackEntry /\ clock' = clock)
       /\ (CallbackEntry /\ Len(q) > 1) =>
             (q' = Tail(q) /\ applied' = Append(applied, Head(q).id))
       /\ clock' # clock => (q' = q /\ applied' = applied)]_vars

\* C2 witness: an invocation has popped one update and two more stay queued
C2_Witness == cb_pc = "frames" /\ cb_update # NoUpdate /\ Len(q) >= 2

\* C3: a push on a full queue is dropped and the control loop goes on: main
\* is never stopped by a failed push.
C3_FullQueueDropsUpdate == ctl_pc # "panic_push"

\* C4: the update followed is popped by an invocation that began after its
\* push, and by the 16th such invocation at the latest: while it is queued at
\* place i it has seen at most QueueCapacity - i invocations begin.
C4_AppliedWithinCapacity ==
    /\ track.st = "on" =>
          \E i \in 1..Len(q) : q[i].id = track.id /\ track.age + i <= QueueCapacity
    /\ track.st = "done" => (track.age >= 1 /\ track.age <= QueueCapacity)

\* C4 witness: an update was popped by the 16th invocation after its push
C4_Witness == track.st = "done" /\ track.age = QueueCapacity

\* C5: once an invocation that popped CarrierFreq(v) has rendered its block,
\* the carrier rendered with the frequency v.
C5_CarrierFreqRendered ==
    (cb_pc = "idle" /\ cb_update.kind = "CarrierFreq") => freq_used = cb_update.v

\* C6: with the envelope as Attack / Release updates can make it (decay and
\* hold 0, sustain 1.0, any attack and release, 0 included), render never
\* returns a non-finite value.
C6_EnvelopeFinite ==
    (op = "render" /\ env.decay = 0 /\ env.hold = 0 /\ env.sustain = One) => ~IsNaN(g)

\* C7: a step of the control thread leaves the clock, the envelope, the two
\* oscillators and the rendered values unchanged, and a step of the callback
\* leaves the control thread's state unchanged: the queue is all they share.
C7_AudioStateOwnedByCallback ==
    [][/\ ControlStep => UNCHANGED <<clock, env, osc, osc_mod, cb_pc, cb_left, g, s, out>>
       /\ AudioStep => UNCHANGED <<ctl_pc, led, local, events, pushed>>
       /\ ~(ControlStep /\ AudioStep)]_vars

\* C7 witness: the control thread pushed an encoder update while the callback
\* was in the middle of a block
C7_Witness == cb_pc = "frames" /\ cb_left = 1 /\ events >= 1 /\ clock >= 1 /\ Len(q) >= 1

\* C8: render(t) is exactly 0 before start_time and after the end.
C8_ZeroOutside ==
    (op = "render" /\ (clock < env.start_time \/ clock > EnvEnd)) => g = Zero

\* C8 witness: a render after the end of an envelope with all four segments
C8_Witness ==
    /\ op = "render" /\ clock > EnvEnd
    /\ env.attack > 0 /\ env.decay > 0 /\ env.hold > 0 /\ env.release > 0

\* C9 as stated: render(start_time) == 0 and render(start_time + attack) == 1
\* in every configuration; taken on those with release > 0, where no 0/0
\* arises.
C9_Original ==
    (op = "render" /\ env.release > 0) =>
       /\ clock = env.start_time => FEq(g, Zero)
       /\ clock = env.start_time + env.attack => FEq(g, One)

\* C9 amended: render(start_time) == 0 when attack > 0; render(start_time +
\* attack) is 1 when decay > 0, is sustain when decay = 0 and hold + release
\* > 0, and is the 0/0 of the release branch when decay, hold and release
\* are all 0.
C9_BoundaryValues ==
    op = "render" =>
       /\ (env.attack > 0 /\ clock = env.start_time) => g = Zero
       /\ (clock = env.start_time + env.attack /\ env.decay > 0) => g = One
       /\ (clock = env.start_time + env.attack /\ env.decay = 0
             /\ env.hold + env.release > 0) => g = env.sustain
       /\ (clock = env.start_time + env.attack /\ env.decay = 0
             /\ env.hold + env.release = 0) => IsNaN(g)

\* C9 witness: the end of a non-empty attack, with no decay and a sustain
\* below 1, rendered as sustain
C9_Witness ==
    /\ op = "render" /\ env.attack > 0 /\ clock = env.start_time + env.attack
    /\ env.decay = 0 /\ env.release > 0 /\ env.sustain # One /\ g = env.sustain

\* C10: render at the exact end sample is 0, release = 0 included.
C10_ZeroAtEnd == (op = "render" /\ clock = EnvEnd) => FEq(g, Zero)

\* C11: after every Oscillator::render the phase lies in [0, 2 PI), whatever
\* frequencies and detunes were set.
C11_PhaseInRange ==
    op = "render" => (osc.phase >= 0 /\ osc.phase < SAMPLE_FREQUENCY)

\* C12: a smoothed set_value(v) with v different from the current value does
\* not make the very next value() equal to v.
C12_SmoothedSetIsGradual ==
    [][(op' = "set_frequency" /\ cb_update'.v # value(osc.frequency))
          => value(osc'.frequency) # cb_update'.v]_vars

\* C13: with no encoder event, the four startup pushes succeed, and once the
\* callbacks have popped the four, the modulator frequency is 55 Hz, the
\* attack 4800 samples and the release 43200 samples, and they stay so.
C13_StartupDefaults ==
    events = 0 =>
        /\ ctl_pc # "panic_push"
        /\ Len(q) + Len(applied) = pushed
        /\ pushed <= 4
        /\ ctl_pc = "poll" => pushed = 4
        /\ Len(applied) = 4 =>
              /\ applied = <<1, 2, 3, 4>>
              /\ value(osc_mod.frequency) = 55
              /\ env.attack = 4800
              /\ env.release = 43200

C13_Witness ==
    /\ events = 0
    /\ Len(applied) = 4
    /\ cb_pc = "idle"
    /\ clock = MaxFrames

\* C14: a frame of sample index t triggers the envelope exactly when t is a
\* multiple of the sample rate, t = 0 included, and before it renders it: at
\* every envelope render start_time is the largest multiple of 48000 <= t.
C14_RetriggerEachSecond ==
    [][clock' # clock =>
          /\ env'.start_time = IF clock % 48000 = 0 THEN clock ELSE env.start_time
          /\ env'.start_time = (clock \div 48000) * 48000
          /\ g' = ADSR_render(env', clock)
      ]_vars

C14_Witness ==
    /\ clock > SAMPLE_FREQUENCY
    /\ env.start_time = SAMPLE_FREQUENCY
    /\ g # Zero

\* C15: a callback on a block of n frames writes each frame once, left equal
\* to right, the product of the envelope and the carrier, advances the clock
\* by one per frame and returns when n frames are written; sample indices
\* increase by one per frame, across blocks too.
C15_BlockWritesEachFrameOnce ==
    [][/\ CallbackEntry => clock' = clock /\ cb_left' >= 1 /\ out' = out
       /\ clock' # clock =>
             /\ cb_pc = "frames"
             /\ clock' = clock + 1
             /\ cb_left' = cb_left - 1
             /\ out'.l = FMul(g', s')
             /\ out'.r = out'.l
       /\ out' # out => clock' = clock + 1
       /\ (cb_pc = "frames" /\ cb_pc' = "frames") => cb_left' >= 1
       /\ cb_pc' = "idle" => cb_left' = 0
      ]_vars

C15_Witness ==
    /\ cb_pc = "idle"
    /\ clock = MaxBlock + 1
    /\ Len(applied) = 2
    /\ out.l # Zero
    /\ out.r = out.l

\* the newest update, while it is still queued
Newest == q[Len(q)]

\* C16: every accumulator stays in [0, 64]; an update pushed for encoder 0
\* or 1 carries ten times its accumulator, a frequency in [0, 640] Hz, as
\* CarrierFreq or ModulationFreq; one pushed for encoder 2 or 3 carries its
\* accumulator over 64, a duration in [0, 1] s, as Attack or Release.
C16_AccumulatorsAndPayloads ==
    /\ \A n \in 0..3 : led[n] >= 0 /\ led[n] <= LedMax
    /\ \A i \in 1..Len(q) :
          q[i].id > 4 =>
              /\ q[i].v >= 0
              /\ q[i].kind \in {"CarrierFreq", "ModulationFreq"} => q[i].v <= 640
              /\ q[i].kind \in {"Attack", "Release"} => q[i].v <= DurUnit
    /\ (q # <<>> /\ Newest.id = pushed /\ pushed > 4) =>
          Newest.v = CASE Newest.kind = "CarrierFreq" -> (led[0] * 10) \div 10
                       [] Newest.kind = "ModulationFreq" -> (led[1] * 10) \div 10
                       [] Newest.kind = "Attack" -> (led[2] * DurUnit) \div 640
                       [] Newest.kind = "Release" -> (led[3] * DurUnit) \div 640

C16_Witness ==
    /\ led[0] = LedMax
    /\ led[3] = 400
    /\ q # <<>>
    /\ Newest = [kind |-> "Release", v |-> 400, id |-> 7]

\* C17: applying a popped update changes only the field its variant names;
\* no update changes start_time, a phase, a detune, or the envelope's decay,
\* hold and sustain, which keep 0, 0 and 1.0; only trigger changes start_time.
C17_UpdateChangesOneField ==
    [][/\ CallbackEntry =>
            LET k == cb_update'.kind
                v == cb_update'.v
            IN /\ k = "none" => env' = env /\ osc' = osc /\ osc_mod' = osc_mod
               /\ k = "CarrierFreq" =>
                     /\ env' = env /\ osc_mod' = osc_mod
                     /\ osc' = [osc EXCEPT !.frequency.v0 = v]
               /\ k = "ModulationFreq" =>
                     /\ env' = env /\ osc' = osc
                     /\ osc_mod' = [osc_mod EXCEPT !.frequency.v0 = v]
               /\ k = "Attack" =>
                     /\ osc' = osc /\ osc_mod' = osc_mod
                     /\ env' = [env EXCEPT !.attack = s2f(v)]
               /\ k = "Release" =>
                     /\ osc' = osc /\ osc_mod' = osc_mod
                     /\ env' = [env EXCEPT !.release = s2f(v)]
       /\ env'.start_time # env.start_time =>
             clock' = clock + 1 /\ clock % SAMPLE_FREQUENCY = 0 /\ env'.start_time = clock
       /\ env'.decay = 0 /\ env'.hold = 0 /\ env'.sustain = One
       /\ osc'.detune = Param_new(0) /\ osc_mod'.detune = Param_new(0)
      ]_vars

C17_Witness ==
    /\ cb_pc = "frames"
    /\ cb_update = [kind |-> "Release", v |-> 400, id |-> 5]
    /\ env.release = s2f(400)
    /\ env.attack = s2f(64)

\* the ids queued, in queue order
QueuedIds == [i \in 1..Len(q) |-> q[i].id]

C19_MalformedIndexIgnored == ctl_pc # "panic_index"

\* C20: render(t) never subtracts a larger unsigned count from a smaller
\* one; in the release branch the elapsed count left is at most release; and
\* with release > 0 and sustain in [0, 1] the value is within [0, 1].
C20_NoUnderflowInRange ==
    op = "render" =>
        LET subs == Subtractions(env, clock) IN
        /\ \A i \in 1..Len(subs) : subs[i][1] >= subs[i][2]
        /\ Len(subs) = 4 => subs[4][1] - subs[4][2] <= env.release
        /\ env.release > 0 => ~IsNaN(g) /\ FLe(Zero, g) /\ FLe(g, One)

C20_Witness ==
    /\ op = "render"
    /\ Len(Subtractions(env, clock)) = 4
    /\ env.start_time > 0 /\ env.attack > 0 /\ env.decay > 0 /\ env.hold > 0
    /\ env.release = MaxSeg
    /\ clock = env.start_time + duration(env) - 1
    /\ env.sustain # Zero /\ env.sustain # One
    /\ g # Zero /\ g # env.sustain

====
